---- MODULE Spec2Model ----
(***************************************************************************)
(* Model of batch_job_handler.py: the AWS Lambda that relays a Batch job   *)
(* state-change event to an SNS topic.                                     *)
(*                                                                         *)
(* Python values are modelled as follows.                                  *)
(*   - a str whose characters matter (the job queue ARN, which the code    *)
(*     matches against a regular expression) is a sequence of one-char     *)
(*     strings;                                                            *)
(*   - a str that is only compared or interpolated (job name, job status)  *)
(*     is a TLA+ string;                                                   *)
(*   - a dict is a function whose DOMAIN is the set of its keys;           *)
(*   - a JSON text is <<"json", v>> when it decodes to v, and any other    *)
(*     value when it does not decode;                                      *)
(*   - the way a call ends is a record [kind, value]: kind "return" with   *)
(*     the returned value, "raise" with <<exception type, argument>>, or   *)
(*     "exit" with the status passed to sys.exit.                          *)
(* Logging is not modelled, except that building a log line evaluates the  *)
(* names its f-string interpolates.                                        *)
(***************************************************************************)
EXTENDS Naturals, Sequences, FiniteSets

VARIABLES
    sns_topic,      \* args.sns_topic, fixed when the module is loaded
    call,           \* the call in progress with the way it ended, or Idle
    topic_count     \* number of messages the SNS topic has accepted

vars == <<sns_topic, call, topic_count>>

(***************************************************************************)
(* Bounds of the model.                                                    *)
(***************************************************************************)
MaxPrefixLen == 1      \* characters put before the queue-name part of an ARN
MaxTailLen == 2        \* characters put after it
MaxPublished == 1      \* messages the topic accepts before the model stops

(***************************************************************************)
(* Module constants, lines 13-31.                                          *)
(***************************************************************************)
FAILED_JOB_STATUS == "FAILED"
PENDING_JOB_STATUS == "PENDING"
RUNNABLE_JOB_STATUS == "RUNNABLE"
STARTING_JOB_STATUS == "STARTING"
SUCCEEDED_JOB_STATUS == "SUCCEEDED"

IGNORED_JOB_STATUSES == {PENDING_JOB_STATUS, RUNNABLE_JOB_STATUS, STARTING_JOB_STATUS}

JOB_NAME_KEY == "jobName"
JOB_STATUS_KEY == "jobStatus"
JOB_QUEUE_KEY == "jobQueue"

ERROR_NOTIFICATION_TYPE == "Error"
WARNING_NOTIFICATION_TYPE == "Warning"
INFORMATION_NOTIFICATION_TYPE == "Information"

CRITICAL_SEVERITY == "Critical"
HIGH_SEVERITY == "High"
MEDIUM_SEVERITY == "Medium"

(***************************************************************************)
(* Strings as character sequences, and the regular expression of line 33.  *)
(***************************************************************************)
NL == "\n"

\* The literal part of "^.*/pdm_object_tagger$".
PDM_OBJECT_TAGGER == <<"/", "p", "d", "m", "_", "o", "b", "j", "e", "c", "t",
                       "_", "t", "a", "g", "g", "e", "r">>

StartsAt(s, lit, i) ==
    /\ i + Len(lit) - 1 <= Len(s)
    /\ \A k \in 1..Len(lit) : s[i + k - 1] = lit[k]

\* str.endswith
EndsWith(s, lit) ==
    /\ Len(lit) <= Len(s)
    /\ StartsAt(s, lit, Len(s) - Len(lit) + 1)

\* re.compile("^.*" + lit + "$").match(s), no flags: "." is any character but a
\* newline, "$" matches at the end of the string and also just before a newline
\* that is the last character of the string.
RegexDotStarLiteralEnd(lit, s) ==
    \E i \in 1..(Len(s) + 1) :
        /\ \A k \in 1..(i - 1) : s[k] # NL
        /\ StartsAt(s, lit, i)
        /\ LET rest == Len(s) - (i + Len(lit) - 1)
           IN  \/ rest = 0
               \/ rest = 1 /\ s[Len(s)] = NL

REGEX_PDM_OBJECT_TAGGING_JOB_QUEUE_ARN(job_queue) ==
    RegexDotStarLiteralEnd(PDM_OBJECT_TAGGER, job_queue)

(***************************************************************************)
(* How a call ends.                                                        *)
(***************************************************************************)
Return(v) == [kind |-> "return", value |-> v]
Raise(type, arg) == [kind |-> "raise", value |-> <<type, arg>>]
Raise2(type, text, arg) == [kind |-> "raise", value |-> <<type, text, arg>>]
Exit(code) == [kind |-> "exit", value |-> code]

None == "None"

\* "not x" is true of None and of the empty string.
Truthy(x) == x # None /\ x # ""

(***************************************************************************)
(* json.dumps / json.loads.                                                *)
(***************************************************************************)
json_dumps(v) == <<"json", v>>

json_loads(text) ==
    IF text[1] = "json"
    THEN Return(text[2])
    ELSE Raise("JSONDecodeError", "Expecting value")

(***************************************************************************)
(* Name resolution at the log statement of lines 253-256.                  *)
(***************************************************************************)
\* Names bound at module level (imports, constants, functions, lines 4-111).
ModuleGlobals ==
    {"argparse", "boto3", "json", "logging", "os", "sys", "socket", "re",
     "FAILED_JOB_STATUS", "PENDING_JOB_STATUS", "RUNNABLE_JOB_STATUS",
     "STARTING_JOB_STATUS", "SUCCEEDED_JOB_STATUS", "IGNORED_JOB_STATUSES",
     "JOB_NAME_KEY", "JOB_STATUS_KEY", "JOB_QUEUE_KEY",
     "ERROR_NOTIFICATION_TYPE", "WARNING_NOTIFICATION_TYPE",
     "INFORMATION_NOTIFICATION_TYPE", "CRITICAL_SEVERITY", "HIGH_SEVERITY",
     "MEDIUM_SEVERITY", "REGEX_PDM_OBJECT_TAGGING_JOB_QUEUE_ARN",
     "REGEX_UCFS_CLAIMANT_JOB_QUEUE_ARN", "TRIMMER_JOB_NAME",
     "REGEX_TRIMMER_JOB_QUEUE_ARN", "log_level", "setup_logging",
     "get_parameters", "args", "logger", "handler",
     "generate_monitoring_message_payload", "send_sns_message",
     "get_and_validate_job_details", "get_severity", "get_notification_type",
     "get_escaped_json_string"}

\* Names get_and_validate_job_details has bound when line 253 runs.
ValidateLocalsAtLog == {"event", "message", "dumped_message"}

\* Names the f-strings of lines 254-255 interpolate, in evaluation order.
ValidateLogNames == <<"dumped_message", "job_queue", "job_name", "job_status">>

RECURSIVE FirstUnbound(_, _)
FirstUnbound(names, scope) ==
    IF names = <<>> THEN None
    ELSE IF Head(names) \notin scope THEN Head(names)
    ELSE FirstUnbound(Tail(names), scope)

(***************************************************************************)
(* get_and_validate_job_details, lines 244-273.                            *)
(***************************************************************************)
RECURSIVE FirstMissing(_, _)
FirstMissing(required_keys, details_dict) ==
    IF required_keys = <<>> THEN None
    ELSE IF Head(required_keys) \notin DOMAIN details_dict THEN Head(required_keys)
    ELSE FirstMissing(Tail(required_keys), details_dict)

\* event["Records"][0]["Sns"]["Message"]
EventMessageText(event) ==
    IF "Records" \notin DOMAIN event THEN Raise("KeyError", "Records")
    ELSE IF event["Records"] = <<>> THEN Raise("IndexError", "list index out of range")
    ELSE Return(event["Records"][1]["Sns"]["Message"])

\* Lines 258-273, once the message is decoded and the first log line written.
ValidateDetail(message) ==
    IF "detail" \notin DOMAIN message
    THEN Raise("KeyError", "Message contains no 'detail' key")
    ELSE LET details_dict == message["detail"]
             required_keys == <<JOB_NAME_KEY, JOB_STATUS_KEY, JOB_QUEUE_KEY>>
             missing == FirstMissing(required_keys, details_dict)
         IN  IF missing # None
             THEN Raise2("KeyError", "Details dict contains no key", missing)
             ELSE Return(details_dict)

get_and_validate_job_details(event) ==
    LET text == EventMessageText(event)
    IN  IF text.kind # "return" THEN text
        ELSE LET decoded == json_loads(text.value)
             IN  IF decoded.kind # "return" THEN decoded
                 ELSE LET unbound == FirstUnbound(ValidateLogNames,
                                         ValidateLocalsAtLog \cup ModuleGlobals)
                      IN  IF unbound # None
                          THEN Raise("NameError", unbound)
                          ELSE ValidateDetail(decoded.value)

\* Mutant: the queue pattern is consulted for SUCCEEDED as it is for FAILED.
get_severity_pattern_for_succeeded(job_queue, job_status, job_name) ==
    IF job_status \in {SUCCEEDED_JOB_STATUS, FAILED_JOB_STATUS}
    THEN IF REGEX_PDM_OBJECT_TAGGING_JOB_QUEUE_ARN(job_queue)
         THEN CRITICAL_SEVERITY
         ELSE HIGH_SEVERITY
    ELSE MEDIUM_SEVERITY

\* Mutant: the default severity is High instead of Medium.
get_severity_default_high(job_queue, job_status, job_name) ==
    IF job_status \in {FAILED_JOB_STATUS}
    THEN IF REGEX_PDM_OBJECT_TAGGING_JOB_QUEUE_ARN(job_queue)
         THEN CRITICAL_SEVERITY
         ELSE HIGH_SEVERITY
    ELSE HIGH_SEVERITY

(***************************************************************************)
(* get_severity, lines 276-300, and get_notification_type, lines 303-325.  *)
(***************************************************************************)
get_severity(job_queue, job_status, job_name) ==
    IF job_status \in {SUCCEEDED_JOB_STATUS}
    THEN HIGH_SEVERITY
    ELSE IF job_status \in {FAILED_JOB_STATUS}
         THEN IF REGEX_PDM_OBJECT_TAGGING_JOB_QUEUE_ARN(job_queue)
              THEN CRITICAL_SEVERITY
              ELSE HIGH_SEVERITY
         ELSE MEDIUM_SEVERITY

get_notification_type(job_queue, job_status, job_name) ==
    IF job_status \in {FAILED_JOB_STATUS}
    THEN IF REGEX_PDM_OBJECT_TAGGING_JOB_QUEUE_ARN(job_queue)
         THEN ERROR_NOTIFICATION_TYPE
         ELSE WARNING_NOTIFICATION_TYPE
    ELSE INFORMATION_NOTIFICATION_TYPE

(***************************************************************************)
(* generate_monitoring_message_payload, lines 174-209.  The parameters are *)
(* in the order of the def: job_queue, job_name, job_status.               *)
(***************************************************************************)
\* f"Job changed to - _{x}_"
TitleText(x) == <<"Job changed to - _", x, "_">>

generate_monitoring_message_payload(job_queue, job_name, job_status, severity, notification_type) ==
    [severity |-> severity,
     notification_type |-> notification_type,
     slack_username |-> "AWS Batch Job Notification",
     title_text |-> TitleText(job_status),
     custom_elements |-> << [key |-> "Job name", value |-> job_name],
                            [key |-> "Job queue", value |-> job_queue] >>]

\* Mutant: a publish that raises is attempted a second time.
send_sns_message_retry(sns_client, payload, sns_topic_arn, job_queue, job_status, job_name) ==
    LET json_message == json_dumps(payload)
        attempt == [TopicArn |-> sns_topic_arn, Message |-> json_message]
    IN  [outcome |-> IF sns_client = "accepts"
                     THEN Return("MessageId")
                     ELSE Raise("ClientError", "publish failed"),
         attempts |-> IF sns_client = "accepts"
                      THEN <<attempt>>
                      ELSE <<attempt, attempt>>]

(***************************************************************************)
(* send_sns_message, lines 212-241.  sns_client is the behaviour of the    *)
(* client's publish: it accepts the message or raises.                     *)
(***************************************************************************)
SnsClients == {"accepts", "ClientError"}

send_sns_message(sns_client, payload, sns_topic_arn, job_queue, job_status, job_name) ==
    LET json_message == json_dumps(payload)
        attempt == [TopicArn |-> sns_topic_arn, Message |-> json_message]
    IN  [outcome |-> IF sns_client = "accepts"
                     THEN Return("MessageId")
                     ELSE Raise("ClientError", "publish failed"),
         attempts |-> <<attempt>>]

\* Mutant: the event is validated before the topic is looked at.
handler_validate_first(event, context, sns_client) ==
    LET validated == get_and_validate_job_details(event)
        s1 == <<"get_and_validate_job_details">>
    IN  IF validated.kind # "return"
        THEN [outcome |-> validated, steps |-> s1, attempts |-> <<>>]
        ELSE IF ~Truthy(sns_topic)
        THEN [outcome |-> Raise("Exception", "Required argument SNS_TOPIC is unset"),
              steps |-> s1, attempts |-> <<>>]
        ELSE
        LET details_dict == validated.value
            job_name == details_dict[JOB_NAME_KEY]
            job_status == details_dict[JOB_STATUS_KEY]
            job_queue == details_dict[JOB_QUEUE_KEY]
            s2 == Append(s1, "IGNORED_JOB_STATUSES")
        IN  IF job_status \in IGNORED_JOB_STATUSES
            THEN [outcome |-> Exit(0), steps |-> s2, attempts |-> <<>>]
            ELSE
            LET severity == get_severity(job_queue, job_status, job_name)
                notification_type == get_notification_type(job_queue, job_status, job_name)
                payload == generate_monitoring_message_payload(
                               job_queue, job_status, job_name,
                               severity, notification_type)
                sent == send_sns_message(sns_client, payload, sns_topic,
                                         job_queue, job_status, job_name)
            IN  [outcome |-> IF sent.outcome.kind = "return"
                             THEN Return(None)
                             ELSE sent.outcome,
                 steps |-> s2 \o <<"get_severity", "get_notification_type",
                                   "generate_monitoring_message_payload",
                                   "send_sns_message">>,
                 attempts |-> sent.attempts]

(***************************************************************************)
(* handler, lines 114-171.  sns_client is what boto3.client("sns")        *)
(* returned at line 133.  The result carries, besides the way the          *)
(* invocation ended, the stages it entered and the publish calls it made.  *)
(***************************************************************************)
handler(event, context, sns_client) ==
    IF ~Truthy(sns_topic)
    THEN [outcome |-> Raise("Exception", "Required argument SNS_TOPIC is unset"),
          steps |-> <<>>, attempts |-> <<>>]
    ELSE
    LET validated == get_and_validate_job_details(event)
        s1 == <<"get_and_validate_job_details">>
    IN  IF validated.kind # "return"
        THEN [outcome |-> validated, steps |-> s1, attempts |-> <<>>]
        ELSE
        LET details_dict == validated.value
            job_name == details_dict[JOB_NAME_KEY]
            job_status == details_dict[JOB_STATUS_KEY]
            job_queue == details_dict[JOB_QUEUE_KEY]
            s2 == Append(s1, "IGNORED_JOB_STATUSES")
        IN  IF job_status \in IGNORED_JOB_STATUSES
            THEN [outcome |-> Exit(0), steps |-> s2, attempts |-> <<>>]
            ELSE
            LET severity == get_severity(job_queue, job_status, job_name)
                notification_type == get_notification_type(job_queue, job_status, job_name)
                \* lines 156-162 pass job_status second and job_name third
                payload == generate_monitoring_message_payload(
                               job_queue, job_status, job_name,
                               severity, notification_type)
                sent == send_sns_message(sns_client, payload, sns_topic,
                                         job_queue, job_status, job_name)
            IN  [outcome |-> IF sent.outcome.kind = "return"
                             THEN Return(None)
                             ELSE sent.outcome,
                 steps |-> s2 \o <<"get_severity", "get_notification_type",
                                   "generate_monitoring_message_payload",
                                   "send_sns_message">>,
                 attempts |-> sent.attempts]

(***************************************************************************)
(* Inputs.                                                                 *)
(***************************************************************************)
SeqsUpTo(S, n) == UNION { [1..k -> S] : k \in 0..n }

JobNames == {"job-1", "job-2"}

\* The five statuses the module names, two more that AWS Batch reports, and a
\* lower-case spelling.
JobStatuses ==
    IGNORED_JOB_STATUSES \cup
    {SUCCEEDED_JOB_STATUS, FAILED_JOB_STATUS, "SUBMITTED", "RUNNING", "failed"}

\* Queue names: the object-tagging one, the same in another case, the same
\* without its slash, and another queue.
QueueNames ==
    {PDM_OBJECT_TAGGER,
     [PDM_OBJECT_TAGGER EXCEPT ![2] = "P"],
     Tail(PDM_OBJECT_TAGGER),
     <<"/", "u", "c", "f", "s">>}

QueuePrefixes == SeqsUpTo({"a", NL}, MaxPrefixLen)
QueueTails == SeqsUpTo({"x", NL}, MaxTailLen)

JobQueues == { p \o q \o t : p \in QueuePrefixes, q \in QueueNames, t \in QueueTails }

\* Queues used where the characters play no part.
SampleQueues == { <<"a">> \o q : q \in QueueNames }

Absent == "<absent>"
AbsentQueue == <<Absent>>

DetailDict(n, s, q) ==
    LET keys == {k \in {JOB_NAME_KEY, JOB_STATUS_KEY, JOB_QUEUE_KEY} :
                    \/ k = JOB_NAME_KEY /\ n # Absent
                    \/ k = JOB_STATUS_KEY /\ s # Absent
                    \/ k = JOB_QUEUE_KEY /\ q # AbsentQueue}
    IN  [k \in keys |-> IF k = JOB_NAME_KEY THEN n
                        ELSE IF k = JOB_STATUS_KEY THEN s
                        ELSE q]

DetailDicts ==
    { DetailDict(n, s, q) : n \in JobNames \cup {Absent},
                            s \in JobStatuses \cup {Absent},
                            q \in JobQueues \cup {AbsentQueue} }

Messages ==
    { [source |-> "aws.batch"] } \cup
    { [source |-> "aws.batch", detail |-> d] : d \in DetailDicts }

EventOf(text) == [Records |-> << [Sns |-> [Message |-> text]] >>]

Events ==
    { [source |-> "aws.events"],
      [Records |-> <<>>],
      EventOf(<<"text", "not json">>) } \cup
    { EventOf(json_dumps(m)) : m \in Messages }

Severities == {CRITICAL_SEVERITY, HIGH_SEVERITY, MEDIUM_SEVERITY}
NotificationTypes ==
    {ERROR_NOTIFICATION_TYPE, WARNING_NOTIFICATION_TYPE, INFORMATION_NOTIFICATION_TYPE}

TopicArn == "arn:aws:sns:eu-west-2:000000000000:monitoring"

\* args.sns_topic after get_parameters: no --sns-topic and no SNS_TOPIC gives
\* None, SNS_TOPIC set to nothing gives the empty string.
TopicSettings == {None, "", TopicArn}

(***************************************************************************)
(* The state machine: the runtime (or a caller of the module) makes one    *)
(* call at a time; the call runs to its end, then its result is dropped.   *)
(***************************************************************************)
Idle == [fn |-> "idle", args |-> <<>>, outcome |-> Return(None),
         steps |-> <<>>, attempts |-> <<>>]

Accepted(sns_client, attempts) ==
    IF sns_client = "accepts" THEN Len(attempts) ELSE 0

Init ==
    /\ sns_topic \in TopicSettings
    /\ call = Idle
    /\ topic_count = 0

Invoke_handler ==
    /\ call.fn = "idle"
    /\ \E event \in Events, sns_client \in SnsClients :
         LET r == handler(event, None, sns_client)
         IN  /\ topic_count + Accepted(sns_client, r.attempts) <= MaxPublished
             /\ call' = [fn |-> "handler", args |-> <<event, sns_client>>,
                         outcome |-> r.outcome, steps |-> r.steps,
                         attempts |-> r.attempts]
             /\ topic_count' = topic_count + Accepted(sns_client, r.attempts)
    /\ UNCHANGED sns_topic

Call_get_and_validate_job_details ==
    /\ call.fn = "idle"
    /\ \E event \in Events :
         call' = [fn |-> "get_and_validate_job_details", args |-> <<event>>,
                  outcome |-> get_and_validate_job_details(event),
                  steps |-> <<>>, attempts |-> <<>>]
    /\ UNCHANGED <<sns_topic, topic_count>>

Call_get_severity ==
    /\ call.fn = "idle"
    /\ \E q \in JobQueues, s \in JobStatuses, n \in JobNames :
         call' = [fn |-> "get_severity", args |-> <<q, s, n>>,
                  outcome |-> Return(get_severity(q, s, n)),
                  steps |-> <<>>, attempts |-> <<>>]
    /\ UNCHANGED <<sns_topic, topic_count>>

Call_get_notification_type ==
    /\ call.fn = "idle"
    /\ \E q \in JobQueues, s \in JobStatuses, n \in JobNames :
         call' = [fn |-> "get_notification_type", args |-> <<q, s, n>>,
                  outcome |-> Return(get_notification_type(q, s, n)),
                  steps |-> <<>>, attempts |-> <<>>]
    /\ UNCHANGED <<sns_topic, topic_count>>

Call_generate_monitoring_message_payload ==
    /\ call.fn = "idle"
    /\ \E q \in SampleQueues, n \in JobNames, s \in JobStatuses,
          sev \in Severities, nt \in NotificationTypes :
         call' = [fn |-> "generate_monitoring_message_payload",
                  args |-> <<q, n, s, sev, nt>>,
                  outcome |-> Return(generate_monitoring_message_payload(q, n, s, sev, nt)),
                  steps |-> <<>>, attempts |-> <<>>]
    /\ UNCHANGED <<sns_topic, topic_count>>

Call_send_sns_message ==
    /\ call.fn = "idle"
    /\ \E sns_client \in SnsClients, q \in SampleQueues, n \in JobNames,
          s \in {SUCCEEDED_JOB_STATUS, FAILED_JOB_STATUS, "RUNNING"} :
         LET payload == generate_monitoring_message_payload(
                            q, n, s, get_severity(q, s, n),
                            get_notification_type(q, s, n))
             r == send_sns_message(sns_client, payload, TopicArn, q, s, n)
         IN  /\ topic_count + Accepted(sns_client, r.attempts) <= MaxPublished
             /\ call' = [fn |-> "send_sns_message",
                         args |-> <<sns_client, payload, TopicArn, q, s, n>>,
                         outcome |-> r.outcome, steps |-> <<>>,
                         attempts |-> r.attempts]
             /\ topic_count' = topic_count + Accepted(sns_client, r.attempts)
    /\ UNCHANGED sns_topic

\* The call is over: nothing of it is kept.
Finish ==
    /\ call.fn # "idle"
    /\ call' = Idle
    /\ UNCHANGED <<sns_topic, topic_count>>

Next ==
    \/ Invoke_handler
    \/ Call_get_and_validate_job_details
    \/ Call_get_severity
    \/ Call_get_notification_type
    \/ Call_generate_monitoring_message_payload
    \/ Call_send_sns_message
    \/ Finish

Spec == Init /\ [][Next]_vars

(***************************************************************************)
(* What an event holds, read off the event itself.                         *)
(***************************************************************************)
HasMessage(event) ==
    /\ "Records" \in DOMAIN event
    /\ event["Records"] # <<>>
    /\ event["Records"][1]["Sns"]["Message"][1] = "json"

MessageOf(event) == event["Records"][1]["Sns"]["Message"][2]

HasDetail(event) == HasMessage(event) /\ "detail" \in DOMAIN MessageOf(event)

DetailOf(event) == MessageOf(event)["detail"]

HasAllFields(event) ==
    /\ HasDetail(event)
    /\ {JOB_NAME_KEY, JOB_STATUS_KEY, JOB_QUEUE_KEY} \subseteq DOMAIN DetailOf(event)

KnownStatuses ==
    IGNORED_JOB_STATUSES \cup {SUCCEEDED_JOB_STATUS, FAILED_JOB_STATUS}

HandlerDone == call.fn = "handler"
HandlerEvent == call.args[1]
HandlerClient == call.args[2]
TopicConfigured == Truthy(sns_topic)

FullOrder ==
    <<"get_and_validate_job_details", "IGNORED_JOB_STATUSES", "get_severity",
      "get_notification_type", "generate_monitoring_message_payload",
      "send_sns_message">>

IsPrefix(s, t) == Len(s) <= Len(t) /\ \A i \in 1..Len(s) : s[i] = t[i]

(***************************************************************************)
(* Claims.                                                                 *)
(***************************************************************************)

\* C1: for a FAILED job the classification is (Critical, Error) exactly when
\* job_queue ends with "/pdm_object_tagger", and (High, Warning) otherwise.
C1_FailedBySuffix ==
    /\ (call.fn = "get_severity" /\ call.args[2] = FAILED_JOB_STATUS)
         => call.outcome.value = IF EndsWith(call.args[1], PDM_OBJECT_TAGGER)
                                 THEN CRITICAL_SEVERITY ELSE HIGH_SEVERITY
    /\ (call.fn = "get_notification_type" /\ call.args[2] = FAILED_JOB_STATUS)
         => call.outcome.value = IF EndsWith(call.args[1], PDM_OBJECT_TAGGER)
                                 THEN ERROR_NOTIFICATION_TYPE
                                 ELSE WARNING_NOTIFICATION_TYPE

\* C2: for a SUCCEEDED job get_severity returns High and get_notification_type
\* returns Information, whatever the job queue and the job name.
C2_SucceededIsHighInformation ==
    /\ (call.fn = "get_severity" /\ call.args[2] = SUCCEEDED_JOB_STATUS)
         => call.outcome.value = HIGH_SEVERITY
    /\ (call.fn = "get_notification_type" /\ call.args[2] = SUCCEEDED_JOB_STATUS)
         => call.outcome.value = INFORMATION_NOTIFICATION_TYPE

C2_Witness ==
    /\ call.fn = "get_severity"
    /\ call.args[2] = SUCCEEDED_JOB_STATUS
    /\ EndsWith(call.args[1], PDM_OBJECT_TAGGER)
    /\ call.outcome.value = HIGH_SEVERITY

\* C3: with the topic configured, an event whose detail carries the three
\* fields with an ignored status makes no publish and ends in the
\* suppressed outcome, sys.exit(0).
C3_IgnoredStatusSuppressed ==
    (/\ HandlerDone
     /\ TopicConfigured
     /\ HasAllFields(HandlerEvent)
     /\ DetailOf(HandlerEvent)[JOB_STATUS_KEY] \in IGNORED_JOB_STATUSES)
    => /\ call.attempts = <<>>
       /\ call.outcome.kind = "exit"
       /\ call.outcome.value = 0

\* C4: a status outside PENDING, RUNNABLE, STARTING, SUCCEEDED, FAILED is not
\* suppressed by handler and is classified Medium, Information.
C4_UnknownStatusIsMediumInformation ==
    /\ (call.fn = "get_severity" /\ call.args[2] \notin KnownStatuses)
         => call.outcome.value = MEDIUM_SEVERITY
    /\ (call.fn = "get_notification_type" /\ call.args[2] \notin KnownStatuses)
         => call.outcome.value = INFORMATION_NOTIFICATION_TYPE
    /\ (/\ HandlerDone
        /\ HasAllFields(HandlerEvent)
        /\ DetailOf(HandlerEvent)[JOB_STATUS_KEY] \notin KnownStatuses)
         => call.outcome.kind # "exit"

C4_Witness ==
    /\ call.fn = "get_severity"
    /\ call.args[2] = "RUNNING"
    /\ EndsWith(call.args[1], PDM_OBJECT_TAGGER)
    /\ call.outcome.value = MEDIUM_SEVERITY

\* C5: for a valid event whose status is not suppressed, handler publishes a
\* payload whose title_text is built from the event's job status and whose
\* custom_elements are the job name, then the job queue.
C5_PublishedPayload ==
    (/\ HandlerDone
     /\ TopicConfigured
     /\ HasAllFields(HandlerEvent)
     /\ DetailOf(HandlerEvent)[JOB_STATUS_KEY] \notin IGNORED_JOB_STATUSES)
    => /\ Len(call.attempts) = 1
       /\ LET payload == call.attempts[1].Message[2]
              detail == DetailOf(HandlerEvent)
          IN  /\ payload.title_text = TitleText(detail[JOB_STATUS_KEY])
              /\ payload.custom_elements =
                   << [key |-> "Job name", value |-> detail[JOB_NAME_KEY]],
                      [key |-> "Job queue", value |-> detail[JOB_QUEUE_KEY]] >>

\* C6: a detail section lacking a required field makes validation fail with
\* the error naming the first missing field in the order jobName, jobStatus,
\* jobQueue, and handler ends with that error without publishing.
C6_FirstMissingFieldNamed ==
    (/\ \/ call.fn = "get_and_validate_job_details"
        \/ HandlerDone /\ TopicConfigured
     /\ HasDetail(call.args[1])
     /\ ~HasAllFields(call.args[1]))
    => /\ call.outcome.kind = "raise"
       /\ call.outcome.value =
            <<"KeyError", "Details dict contains no key",
              LET present == DOMAIN DetailOf(call.args[1])
              IN  IF JOB_NAME_KEY \notin present THEN JOB_NAME_KEY
                  ELSE IF JOB_STATUS_KEY \notin present THEN JOB_STATUS_KEY
                  ELSE JOB_QUEUE_KEY>>
       /\ call.attempts = <<>>

\* C7: a decoded message without a "detail" key makes validation, and the
\* invocation, end with the missing-detail error and no other.
C7_MissingDetailError ==
    (/\ \/ call.fn = "get_and_validate_job_details"
        \/ HandlerDone /\ TopicConfigured
     /\ HasMessage(call.args[1])
     /\ ~HasDetail(call.args[1]))
    => /\ call.outcome.kind = "raise"
       /\ call.outcome.value = <<"KeyError", "Message contains no 'detail' key">>

\* C8: with sns_topic unset, handler ends with the configuration error for
\* every event, before validation, filter or classification run, and without
\* a publish.
C8_UnsetTopicFailsFirst ==
    (HandlerDone /\ ~TopicConfigured)
    => /\ call.outcome.kind = "raise"
       /\ call.outcome.value = <<"Exception", "Required argument SNS_TOPIC is unset">>
       /\ call.steps = <<>>
       /\ call.attempts = <<>>

C8_Witness ==
    /\ HandlerDone
    /\ sns_topic = ""
    /\ HasAllFields(HandlerEvent)
    /\ DetailOf(HandlerEvent)[JOB_STATUS_KEY] = FAILED_JOB_STATUS
    /\ call.outcome.kind = "raise"
    /\ call.outcome.value[1] = "Exception"

\* C9: an invocation of handler attempts the send at most once, and only after
\* validation, filter, classification and payload construction ran in that
\* order on a validated, unsuppressed event; an invocation that ends in a
\* configuration or validation failure or in suppression made no attempt; and
\* send_sns_message makes a single attempt whether or not it fails.
C9_AtMostOneSendInOrder ==
    /\ HandlerDone =>
         /\ Len(call.attempts) <= 1
         /\ IsPrefix(call.steps, FullOrder)
         /\ call.attempts # <<>> =>
              /\ call.steps = FullOrder
              /\ TopicConfigured
              /\ HasAllFields(HandlerEvent)
              /\ DetailOf(HandlerEvent)[JOB_STATUS_KEY] \notin IGNORED_JOB_STATUSES
         /\ call.steps # FullOrder => call.attempts = <<>>
    /\ call.fn = "send_sns_message" => Len(call.attempts) = 1

C9_Witness ==
    /\ HandlerDone
    /\ TopicConfigured
    /\ HasAllFields(HandlerEvent)
    /\ call.outcome.kind = "raise"
    /\ call.steps = <<"get_and_validate_job_details">>
    /\ call.attempts = <<>>

\* C10: with the topic configured and a send that does not fail, an event whose
\* detail carries the three fields with a status that is not ignored ends in
\* normal completion with exactly one message published.
C10_ValidEventPublishesOnce ==
    (/\ HandlerDone
     /\ TopicConfigured
     /\ HandlerClient = "accepts"
     /\ HasAllFields(HandlerEvent)
     /\ DetailOf(HandlerEvent)[JOB_STATUS_KEY] \notin IGNORED_JOB_STATUSES)
    => /\ call.outcome.kind = "return"
       /\ Len(call.attempts) = 1

====
